---------------------------- MODULE Spec2Model ----------------------------
(***************************************************************************)
(* The coincidence / significance / veto engine of hveto (hveto/core.py).  *)
(*                                                                         *)
(* Times, windows and SNRs are integers (the comparisons of the code are   *)
(* exact on them); a window test t - dt/2 <= x <= t + dt/2 is written      *)
(* 2*t - dt <= 2*x <= 2*t + dt.  Sequences are 1-based where the code is   *)
(* 0-based.  An event is a row [time, snr, channel] of a trigger table     *)
(* (the frequency column is never read by core.py).                        *)
(***************************************************************************)
EXTENDS Integers, Sequences, FiniteSets, Bags, TLC

VARIABLES pc,          \* "start", "scan" (inside find_all_coincidences), "done"
          op,          \* the function that was called
          primary,     \* primary table (find_max_significance)
          auxiliary,   \* dict channel -> table
          snrs,        \* caller's list of SNR thresholds
          windows,     \* caller's list of time windows
          segmentlist, \* caller's segment list (veto, veto_all)
          a, b, dt,    \* arguments of find_coincidences / coinc_significance
          livetime,
          hashorder,   \* iteration order of a set of channel names in this run
          scan,        \* locals of find_all_coincidences while it runs
          ret,         \* what the call returned (or the exception it raised)
          ret2,        \* what a second call on the same inputs returned
          args,        \* arguments of significance, HvetoRound, weekly_hveto
          job          \* locals of the job loop of weekly_hveto

vars == <<pc, op, primary, auxiliary, snrs, windows, segmentlist, a, b, dt,
          livetime, hashorder, scan, ret, ret2, args, job>>

-----------------------------------------------------------------------------
(* Bounds of the model *)

\* most events in the tables handed to veto and veto_all
MaxTable == 3
\* longest array handed to find_coincidences
MaxArray == 2
\* longest segment list
MaxSegs == 2
\* most primary events
MaxPrimary == 2
\* most auxiliary events, all channels together
MaxAux == 3
\* last day (days are counted from day 0) given as --start or --end
MaxDay == 8
\* largest --stride
MaxStride == 3

Times == 0 .. 2
PrimaryChannel == "P"
AuxChannels == {"X", "Y"}
None == "None"
NoRet == [raised |-> "notcalled"]
NoArgs == [f |-> None]
NoJob == [next_dt |-> 0, current_job |-> 0, njobs |-> 0, jobs |-> <<>>]

\* all sequences over S of length at most n
SeqsUpTo(S, n) == UNION {[1 .. k -> S] : k \in 0 .. n}

Event(t, s, c) == [time |-> t, snr |-> s, channel |-> c]

Range(s) == {s[k] : k \in 1 .. Len(s)}

RECURSIVE SeqToBag(_)
SeqToBag(s) ==
    IF s = <<>> THEN EmptyBag ELSE SeqToBag(Tail(s)) (+) SetToBag({Head(s)})

-----------------------------------------------------------------------------
(* Table.sort('time'): rows in ascending time; rows of equal time keep     *)
(* their order (numpy sorts arrays this short by insertion).               *)

RECURSIVE InsertByTime(_, _)
InsertByTime(e, s) ==
    IF s = <<>> THEN <<e>>
    ELSE IF s[Len(s)].time <= e.time THEN Append(s, e)
    ELSE Append(InsertByTime(e, SubSeq(s, 1, Len(s) - 1)), s[Len(s)])

RECURSIVE SortByTime(_)
SortByTime(tbl) ==
    IF tbl = <<>> THEN <<>>
    ELSE InsertByTime(tbl[Len(tbl)], SortByTime(SubSeq(tbl, 1, Len(tbl) - 1)))

\* astropy.table.vstack: the rows of the tables, one table after the other;
\* handed a single table, vstack returns that very table, not a copy
RECURSIVE VstackTables(_)
VstackTables(tables) ==
    IF tables = <<>> THEN <<>> ELSE Head(tables) \o VstackTables(Tail(tables))

\* the values of a dict of tables, in the dict's order
AuxOrder == <<"X", "Y">>
AuxValues(aux) ==
    LET keys == SelectSeq(AuxOrder, LAMBDA c : c \in DOMAIN aux)
    IN  [k \in 1 .. Len(keys) |-> aux[keys[k]]]

\* the table vstack returns is the caller's own table
VstackIsSameTable(tables) == Len(tables) = 1

-----------------------------------------------------------------------------
(* SegmentList.coalesce(): sort, merge the segments that overlap or touch, *)
(* drop the segments of zero length.  A segment is <<start, end>>.         *)

SegLess(s, t) == s[1] < t[1] \/ (s[1] = t[1] /\ s[2] < t[2])

RECURSIVE InsertSeg(_, _)
InsertSeg(s, l) ==
    IF l = <<>> THEN <<s>>
    ELSE IF SegLess(s, l[Len(l)]) THEN Append(InsertSeg(s, SubSeq(l, 1, Len(l) - 1)), l[Len(l)])
    ELSE Append(l, s)

RECURSIVE SortSegs(_)
SortSegs(l) ==
    IF l = <<>> THEN <<>>
    ELSE InsertSeg(l[Len(l)], SortSegs(SubSeq(l, 1, Len(l) - 1)))

Max(x, y) == IF x >= y THEN x ELSE y

\* the merge loop of coalesce over a sorted list: cur is the segment being
\* grown, out the segments already written
RECURSIVE MergeSegs(_, _, _)
MergeSegs(l, cur, out) ==
    LET flush == IF cur[1] # cur[2] THEN Append(out, cur) ELSE out IN
    IF l = <<>> THEN flush
    ELSE IF cur[2] >= Head(l)[1]
         THEN MergeSegs(Tail(l), <<cur[1], Max(cur[2], Head(l)[2])>>, out)
         ELSE MergeSegs(Tail(l), Head(l), flush)

Coalesce(l) ==
    LET s == SortSegs(l) IN
    IF s = <<>> THEN <<>> ELSE MergeSegs(Tail(s), Head(s), <<>>)

-----------------------------------------------------------------------------
(* HvetoRound.livetime and HvetoRound.deadtime, and the segmentlist        *)
(* operations they are made of: abs(), which sums the lengths of the       *)
(* segments as they stand, and &, which is self - ~other on a copy of the  *)
(* longer list, ~ and - being single passes over lists taken to be         *)
(* coalesced.                                                              *)

RoundTimes == 0 .. 3
PosInfinity == Cardinality(RoundTimes)
NegInfinity == - PosInfinity

\* abs(segmentlist)
RECURSIVE AbsSegs(_)
AbsSegs(l) == IF l = <<>> THEN 0 ELSE (Head(l)[2] - Head(l)[1]) + AbsSegs(Tail(l))

\* ~segmentlist, for a coalesced list: the gaps before, between and after
InvertSegs(l) ==
    IF l = <<>> THEN << <<NegInfinity, PosInfinity>> >>
    ELSE << <<NegInfinity, l[1][1]>> >>
         \o [k \in 1 .. Len(l) - 1 |-> <<l[k][2], l[k + 1][1]>>]
         \o << <<l[Len(l)][2], PosInfinity>> >>

\* the sequence without its i-th element
DelAt(l, i) == SubSeq(l, 1, i - 1) \o SubSeq(l, i + 1, Len(l))

\* one iteration of the loop of segmentlist.__isub__; st = [self, i, j,
\* running], other[st.j] being the segment of other the pass is at
ISubBody(st, other) ==
    LET cur == st.self[st.i]
        oth == other[st.j]
    IN  IF oth[2] <= cur[1]
        THEN IF st.j + 1 > Len(other) THEN [st EXCEPT !.running = FALSE]
             ELSE [st EXCEPT !.j = @ + 1]
        ELSE IF cur[2] <= oth[1] THEN [st EXCEPT !.i = @ + 1]
        ELSE IF oth[1] <= cur[1]
             THEN IF oth[2] >= cur[2]
                  THEN [st EXCEPT !.self = DelAt(@, st.i)]
                  ELSE [st EXCEPT !.self[st.i] = <<oth[2], cur[2]>>]
        ELSE [st EXCEPT
                !.self = SubSeq(@, 1, st.i - 1) \o << <<cur[1], oth[1]>> >>
                           \o (IF oth[2] >= cur[2] THEN <<>>
                               ELSE << <<oth[2], cur[2]>> >>)
                           \o SubSeq(@, st.i + 1, Len(@)),
                !.i = @ + 1]

RECURSIVE ISubLoop(_, _)
ISubLoop(st, other) ==
    IF st.running /\ st.i <= Len(st.self) THEN ISubLoop(ISubBody(st, other), other)
    ELSE st

\* self -= other
ISub(self, other) ==
    IF other = <<>> THEN self
    ELSE ISubLoop([self |-> self, i |-> 1, j |-> 1, running |-> TRUE], other).self

\* self & other: the longer list is copied and intersected in place with the
\* other one, x &= y being x -= ~y
AndSegs(self, other) ==
    IF Len(self) >= Len(other) THEN ISub(self, InvertSegs(other))
    ELSE ISub(other, InvertSegs(self))

\* float(abs(self.segments))
Livetime(segments) == AbsSegs(segments)

\* (float(abs((self.vetoes & self.segments).coalesce())),
\*  float(abs(self.segments)))
Deadtime(vetoes, segments) ==
    <<AbsSegs(Coalesce(AndSegs(vetoes, segments))), AbsSegs(segments)>>

-----------------------------------------------------------------------------
(* veto(table, segmentlist)                                                *)

\* an iteration that starts over at the first trigger when it moves to the
\* next segment
VetoLoopBodyRescan(st, times, segs) ==
    LET t == times[st.i] IN
    IF t < st.seg[1] THEN [st EXCEPT !.i = @ + 1]
    ELSE IF t > st.seg[2]
         THEN IF st.j + 1 <= Len(segs)
              THEN [st EXCEPT !.j = @ + 1, !.seg = segs[st.j + 1], !.i = 1]
              ELSE [st EXCEPT !.j = @ + 1, !.running = FALSE]
         ELSE [st EXCEPT !.keep[st.i] = FALSE, !.i = @ + 1]

\* one iteration of the while loop; st = [i, j, seg, keep, running]
VetoLoopBody(st, times, segs) ==
    LET t == times[st.i] IN
    IF t < st.seg[1] THEN [st EXCEPT !.i = @ + 1]
    ELSE IF t > st.seg[2]
         THEN IF st.j + 1 <= Len(segs)
              THEN [st EXCEPT !.j = @ + 1, !.seg = segs[st.j + 1]]
              ELSE [st EXCEPT !.j = @ + 1, !.running = FALSE]
         ELSE [st EXCEPT !.keep[st.i] = FALSE, !.i = @ + 1]

RECURSIVE VetoLoop(_, _, _)
VetoLoop(st, times, segs) ==
    IF st.running /\ st.i <= Len(times)
    THEN VetoLoop(VetoLoopBody(st, times, segs), times, segs)
    ELSE st

\* the rows of tbl whose mask value is v
RECURSIVE SelectMask(_, _, _)
SelectMask(tbl, mask, v) ==
    IF tbl = <<>> THEN <<>>
    ELSE LET rest == SelectMask(Tail(tbl), Tail(mask), v) IN
         IF Head(mask) = v THEN <<Head(tbl)>> \o rest ELSE rest

\* veto running its loop over the list as handed in, not coalesced
VetoAsHandedIn(table, segs0) ==
    LET sorted == SortByTime(table)
        times  == [k \in 1 .. Len(sorted) |-> sorted[k].time]
        segs   == segs0
    IN  IF segs = <<>>
        THEN [raised |-> "IndexError", table |-> sorted]
        ELSE LET st0 == [i |-> 1, j |-> 1, seg |-> segs[1],
                         keep |-> [k \in 1 .. Len(sorted) |-> TRUE],
                         running |-> TRUE]
                 st  == VetoLoop(st0, times, segs)
             IN  [raised |-> None, table |-> sorted,
                  keep |-> SelectMask(sorted, st.keep, TRUE),
                  removed |-> SelectMask(sorted, st.keep, FALSE),
                  iters |-> st]

\* the call: the table as sorted in place, and the pair returned or the
\* IndexError of segmentlist[0] on a list that is empty once coalesced
Veto(table, segs0) ==
    LET sorted == SortByTime(table)
        times  == [k \in 1 .. Len(sorted) |-> sorted[k].time]
        segs   == Coalesce(segs0)
    IN  IF segs = <<>>
        THEN [raised |-> "IndexError", table |-> sorted]
        ELSE LET st0 == [i |-> 1, j |-> 1, seg |-> segs[1],
                         keep |-> [k \in 1 .. Len(sorted) |-> TRUE],
                         running |-> TRUE]
                 st  == VetoLoop(st0, times, segs)
             IN  [raised |-> None, table |-> sorted,
                  keep |-> SelectMask(sorted, st.keep, TRUE),
                  removed |-> SelectMask(sorted, st.keep, FALSE),
                  iters |-> st]

\* veto_all regrouping the survivors by the channels met among them
VetoAllBySurvivor(aux, segs0) ==
    LET t == VstackTables(AuxValues(aux))
        r == Veto(t, segs0)
    IN  IF r.raised # None THEN [raised |-> r.raised]
        ELSE [raised |-> None,
              survivors |-> [c \in {e.channel : e \in Range(r.keep)} |->
                               SelectSeq(r.keep, LAMBDA e : e.channel = c)]]

(* veto_all(auxiliary, segmentlist)                                        *)
VetoAll(aux, segs0) ==
    LET t == VstackTables(AuxValues(aux))
        r == Veto(t, segs0)
    IN  IF r.raised # None THEN [raised |-> r.raised]
        ELSE [raised |-> None,
              survivors |-> [c \in DOMAIN aux |->
                               SelectSeq(r.keep, LAMBDA e : e.channel = c)]]

-----------------------------------------------------------------------------
(* find_coincidences(a, b, dt)                                             *)

\* bisect.bisect_left(b, x) and bisect.bisect_right(b, x), on doubled values
\* (x2 = 2*x); both return a 0-based insertion point
RECURSIVE BisectLeft(_, _, _, _)
BisectLeft(arr, x2, lo, hi) ==
    IF lo < hi
    THEN LET mid == (lo + hi) \div 2 IN
         IF 2 * arr[mid + 1] < x2 THEN BisectLeft(arr, x2, mid + 1, hi)
         ELSE BisectLeft(arr, x2, lo, mid)
    ELSE lo

RECURSIVE BisectRight(_, _, _, _)
BisectRight(arr, x2, lo, hi) ==
    IF lo < hi
    THEN LET mid == (lo + hi) \div 2 IN
         IF x2 < 2 * arr[mid + 1] THEN BisectRight(arr, x2, lo, mid)
         ELSE BisectRight(arr, x2, mid + 1, hi)
    ELSE lo

\* _is_coincident(t) for dx = dt / 2
IsCoincident(t, arr, d) ==
    LET x == BisectLeft(arr, 2 * t - d, 0, Len(arr))
        y == BisectRight(arr, 2 * t + d, 0, Len(arr))
    IN  x # y

\* out.nonzero()[0]: the positions of a (here 1-based) flagged coincident
FindCoincidences(arr1, arr2, d) ==
    {k \in 1 .. Len(arr1) : IsCoincident(arr1[k], arr2, d)}

-----------------------------------------------------------------------------
(* significance(n, mu)                                                     *)
(*                                                                         *)
(* mu is a number of hundredths (mu = 7 is 0.07) and a significance is a   *)
(* number of thousandths (2002 is 2.002): NegLog10Gammainc[n][mu] is       *)
(* -log10(gammainc(n, mu/100)), gammainc being the regularized lower       *)
(* incomplete gamma function P(n, x) = 1 - exp(-x) * sum_{k<n} x^k / k!.   *)
(* For n >= 1 gammainc(n, 0) = 0, and gammainc(n, x) > 0 for every x > 0   *)
(* in the table.                                                           *)

NegLog10Gammainc ==
    << <<2002, 1703, 1529, 1407, 1312, 1235, 1170, 1114, 1065, 1022, 982, 947,
         914, 884, 856, 830, 806, 783, 762, 742, 723, 704, 687, 671>>,
       <<4304, 3705, 3355, 3108, 2918, 2762, 2631, 2518, 2419, 2330, 2250, 2177,
         2111, 2049, 1992, 1939, 1889, 1842, 1798, 1756, 1717, 1679, 1644, 1609>>,
       <<6781, 5882, 5357, 4985, 4698, 4463, 4266, 4095, 3945, 3811, 3690, 3580,
         3479, 3385, 3299, 3218, 3142, 3071, 3003, 2940, 2880, 2822, 2767, 2715>> >>

\* g == 0 at line 268
GammaincIsZero(n, mu) == n >= 1 /\ mu = 0

\* the value returned, or the ValueError of log10(mu) at mu = 0 in the
\* fallback branch.  There is no branch on n: for n = 0 gammainc(0, mu) is 1
\* when mu > 0, and -log10(1) is returned, and it is nan when mu = 0, and
\* -log10(nan) = nan is returned (nan == 0 is false)
Significance(n, mu) ==
    IF GammaincIsZero(n, mu)
    THEN [raised |-> "ValueError"]
    ELSE IF n = 0
         THEN IF mu > 0 THEN [raised |-> None, sig |-> 0]
              ELSE [raised |-> None, nan |-> TRUE]
         ELSE [raised |-> None, sig |-> NegLog10Gammainc[n][mu]]

\* the value is nan
IsNaN(r) == "nan" \in DOMAIN r

(* coinc_significance(a, b, dt, livetime); livetime is 0 or 100, so that   *)
(* a.size * dt / livetime * b.size is a.size * dt * b.size hundredths      *)
CoincSignificance(arr1, arr2, d, lt) ==
    LET coincs == FindCoincidences(arr1, arr2, d)
        n      == Cardinality(coincs)
        prob   == IF lt = 0 THEN 0 ELSE (Len(arr1) * d * 100) \div lt
        mu     == prob * Len(arr2)
    IN  IF n = 0 THEN [raised |-> None, coincs |-> coincs, sig |-> 0]
        ELSE LET s == Significance(n, mu) IN
             IF s.raised # None THEN [raised |-> s.raised]
             ELSE [raised |-> None, coincs |-> coincs, sig |-> s.sig]

-----------------------------------------------------------------------------
(* find_all_coincidences(triggers, channel, snrs, windows)                 *)
(*                                                                         *)
(* A dict is the sequence of its keys in insertion order with the value of *)
(* each (dicts iterate in insertion order): coincs is a sequence of        *)
(* [key |-> <<window, snr>>, cdict |-> ...], a cdict a sequence of         *)
(* [chan |-> c, n |-> count].  A set of channel names has no such order.   *)

\* sorted(windows, reverse=True) and sorted(snrs)
RECURSIVE InsertAsc(_, _)
InsertAsc(x, s) ==
    IF s = <<>> THEN <<x>>
    ELSE IF s[Len(s)] <= x THEN Append(s, x)
    ELSE Append(InsertAsc(x, SubSeq(s, 1, Len(s) - 1)), s[Len(s)])

RECURSIVE SortedAsc(_)
SortedAsc(s) ==
    IF s = <<>> THEN <<>>
    ELSE InsertAsc(s[Len(s)], SortedAsc(SubSeq(s, 1, Len(s) - 1)))

Reverse(s) == [k \in 1 .. Len(s) |-> s[Len(s) + 1 - k]]

SortedDesc(s) == Reverse(SortedAsc(s))

\* itertools.product(windows, snrs): the last factor varies fastest
Product(ws, ss) ==
    [k \in 1 .. Len(ws) * Len(ss) |->
        <<ws[((k - 1) \div Len(ss)) + 1], ss[((k - 1) % Len(ss)) + 1]>>]

\* the keys of dict((p, ...) for p in seq): a repeated key keeps its first place
RECURSIVE DictKeys(_)
DictKeys(seq) ==
    IF seq = <<>> THEN <<>>
    ELSE LET front == DictKeys(SubSeq(seq, 1, Len(seq) - 1)) IN
         IF seq[Len(seq)] \in Range(front) THEN front
         ELSE Append(front, seq[Len(seq)])

\* coincs = dict((p, {}) for p in itertools.product(windows, snrs))
EmptyCoincs(ws, ss) ==
    LET keys == DictKeys(Product(ws, ss)) IN
    [k \in 1 .. Len(keys) |-> [key |-> keys[k], cdict |-> <<>>]]

\* the keys when the k-th segment that holds the event is taken to be the one
\* of the k-th narrowest window
CoincKeysNarrowestFirst(event, t, ws, ss) ==
    LET segs  == [k \in 1 .. Len(ws) |-> <<2 * t - ws[k], 2 * t + ws[k]>>]
        inseg == SelectSeq(segs, LAMBDA sg : sg[1] <= 2 * event.time
                                             /\ 2 * event.time <= sg[2])
    IN  {<<ws[Len(ws) + 1 - k], ss[m]>> : k \in 1 .. Len(inseg),
                            m \in {q \in 1 .. Len(ss) : event.snr >= ss[q]}}

\* the (window, snr) keys add_if_coinc adds event's channel to, for the
\* primary time t: in_seg are the segments that hold the event, and the k-th of
\* them is taken to be the one of windows[k]
CoincKeys(event, t, ws, ss) ==
    LET segs  == [k \in 1 .. Len(ws) |-> <<2 * t - ws[k], 2 * t + ws[k]>>]
        inseg == SelectSeq(segs, LAMBDA sg : sg[1] <= 2 * event.time
                                             /\ 2 * event.time <= sg[2])
    IN  {<<ws[k], ss[m]>> : k \in 1 .. Len(inseg),
                            m \in {q \in 1 .. Len(ss) : event.snr >= ss[q]}}

\* "search left half-window": the positions add_if_coinc returns 1 for, going
\* down from j; it returns None, which ends the loop, on an event of the
\* primary channel (in_seg is a filter object, which is never false)
RECURSIVE SearchLeft(_, _, _)
SearchLeft(triggers, channel, j) ==
    IF j < 1 THEN {}
    ELSE IF triggers[j].channel = channel THEN {}
    ELSE {j} \cup SearchLeft(triggers, channel, j - 1)

\* "search right half-window"
RECURSIVE SearchRight(_, _, _)
SearchRight(triggers, channel, j) ==
    IF j > Len(triggers) THEN {}
    ELSE IF triggers[j].channel = channel THEN {}
    ELSE {j} \cup SearchRight(triggers, channel, j + 1)

\* channels[key] once both searches from the primary event at position i are
\* over: the set of channels seen for that key
ChannelsOf(triggers, channel, i, ws, ss, key) ==
    {triggers[j].channel :
        j \in {q \in SearchLeft(triggers, channel, i - 1)
                     \cup SearchRight(triggers, channel, i + 1) :
               key \in CoincKeys(triggers[q], triggers[i].time, ws, ss)}}

\* for c in cset (a set of strings, iterated in the order order gives them):
\* coincs[p][c] += 1, or = 1 on KeyError
RECURSIVE CountUp(_, _)
CountUp(cdict, cseq) ==
    IF cseq = <<>> THEN cdict
    ELSE LET c   == Head(cseq)
             pos == {k \in 1 .. Len(cdict) : cdict[k].chan = c}
             nxt == IF pos = {} THEN Append(cdict, [chan |-> c, n |-> 1])
                    ELSE [k \in 1 .. Len(cdict) |->
                            IF k \in pos THEN [cdict[k] EXCEPT !.n = @ + 1]
                            ELSE cdict[k]]
         IN  CountUp(nxt, Tail(cseq))

\* one iteration counting every neighbouring event, not every channel
ScanBodyPerNeighbour(coincs, triggers, channel, i, ws, ss, order) ==
    IF triggers[i].channel # channel THEN coincs
    ELSE LET seen == SearchLeft(triggers, channel, i - 1)
                       \cup SearchRight(triggers, channel, i + 1)
             idx  == [j \in 1 .. Len(triggers) |-> j]
         IN  [k \in 1 .. Len(coincs) |->
                LET hit == SelectSeq(idx, LAMBDA j :
                              /\ j \in seen
                              /\ coincs[k].key \in CoincKeys(triggers[j],
                                                    triggers[i].time, ws, ss))
                IN  [coincs[k] EXCEPT
                       !.cdict = CountUp(@, [q \in 1 .. Len(hit) |->
                                               triggers[hit[q]].channel])]]

\* one iteration of "for i, x in enumerate(triggers)"
ScanBody(coincs, triggers, channel, i, ws, ss, order) ==
    IF triggers[i].channel # channel THEN coincs
    ELSE [k \in 1 .. Len(coincs) |->
            LET cset == ChannelsOf(triggers, channel, i, ws, ss, coincs[k].key)
            IN  [coincs[k] EXCEPT
                   !.cdict = CountUp(@, SelectSeq(order, LAMBDA c : c \in cset))]]

RECURSIVE ScanFrom(_, _, _, _, _, _, _)
ScanFrom(coincs, triggers, channel, i, ws, ss, order) ==
    IF i > Len(triggers) THEN coincs
    ELSE ScanFrom(ScanBody(coincs, triggers, channel, i, ws, ss, order),
                  triggers, channel, i + 1, ws, ss, order)

\* the whole call: the coincs returned
FindAllCoincidences(triggers0, channel, snrs0, windows0, order) ==
    LET triggers == SortByTime(triggers0)
        ws       == SortedDesc(windows0)
        ss       == SortedAsc(snrs0)
    IN  ScanFrom(EmptyCoincs(ws, ss), triggers, channel, 1, ws, ss, order)

\* coincs[key][c], 0 if c is not in coincs[key]
CountOf(coincs, key, c) ==
    LET e == {k \in 1 .. Len(coincs) : coincs[k].key = key} IN
    IF e = {} THEN 0
    ELSE LET cd == coincs[CHOOSE k \in e : TRUE].cdict
             h  == {m \in 1 .. Len(cd) : cd[m].chan = c}
         IN  IF h = {} THEN 0 ELSE cd[CHOOSE m \in h : TRUE].n

-----------------------------------------------------------------------------
(* find_max_significance(primary, auxiliary, channel, snrs, windows,       *)
(*                       livetime)                                         *)

\* the winner created with significance 0
NewWinnerZero ==
    [name |-> "unknown", significance |-> 0, snr |-> None,
     window |-> None, mu |-> None]

\* HvetoWinner(name='unknown', significance=-1); a significance is a number
\* of thousandths
NewWinner ==
    [name |-> "unknown", significance |-> -1000, snr |-> None,
     window |-> None, mu |-> None]

\* the events strictly above the threshold
CountSnrAbove(tbl, snr) == Cardinality({k \in 1 .. Len(tbl) : tbl[k].snr > snr})

\* (auxiliary[chan]['snr'] >= snr).sum()
CountSnr(tbl, snr) == Cardinality({k \in 1 .. Len(tbl) : tbl[k].snr >= snr})

\* the body recording the last significance of a channel, not its best
ScoreBodyLastSig(st, key, chan, n, prim, aux, lt) ==
    LET mu == (Len(prim) * CountSnr(aux[chan], key[2]) * key[1] * 100) \div lt
        s  == Significance(n, mu)
    IN  IF st.raised # None THEN st
        ELSE IF s.raised # None THEN [st EXCEPT !.raised = s.raised]
        ELSE [st EXCEPT
                !.sigs[chan] = s.sig,
                !.winner = IF s.sig > @.significance
                           THEN [name |-> chan, significance |-> s.sig,
                                 snr |-> key[2], window |-> key[1], mu |-> mu]
                           ELSE @]

\* the body replacing the winner on a significance that is not smaller
ScoreBodyNotSmaller(st, key, chan, n, prim, aux, lt) ==
    LET mu == (Len(prim) * CountSnr(aux[chan], key[2]) * key[1] * 100) \div lt
        s  == Significance(n, mu)
    IN  IF st.raised # None THEN st
        ELSE IF s.raised # None THEN [st EXCEPT !.raised = s.raised]
        ELSE [st EXCEPT
                !.sigs[chan] = IF s.sig > @ THEN s.sig ELSE @,
                !.winner = IF s.sig >= @.significance
                           THEN [name |-> chan, significance |-> s.sig,
                                 snr |-> key[2], window |-> key[1], mu |-> mu]
                           ELSE @]

\* the body of "for chan in cdict", for the key <<dt, snr>> and coincs[p][chan]
\* = n; st = [raised, winner, sigs]; livetime is 100, which makes mu a number
\* of hundredths
ScoreBody(st, key, chan, n, prim, aux, lt) ==
    LET mu == (Len(prim) * CountSnr(aux[chan], key[2]) * key[1] * 100) \div lt
        s  == Significance(n, mu)
    IN  IF st.raised # None THEN st
        ELSE IF s.raised # None THEN [st EXCEPT !.raised = s.raised]
        ELSE [st EXCEPT
                !.sigs[chan] = IF s.sig > @ THEN s.sig ELSE @,
                !.winner = IF s.sig > @.significance
                           THEN [name |-> chan, significance |-> s.sig,
                                 snr |-> key[2], window |-> key[1], mu |-> mu]
                           ELSE @]

\* "for chan in cdict" from position m on
RECURSIVE ScoreCdict(_, _, _, _, _, _, _)
ScoreCdict(st, key, cdict, m, prim, aux, lt) ==
    IF m > Len(cdict) THEN st
    ELSE ScoreCdict(ScoreBody(st, key, cdict[m].chan, cdict[m].n, prim, aux, lt),
                    key, cdict, m + 1, prim, aux, lt)

\* "for p, cdict in coincs.items()" from position k on
RECURSIVE ScoreCoincs(_, _, _, _, _, _)
ScoreCoincs(st, coincs, k, prim, aux, lt) ==
    IF k > Len(coincs) THEN st
    ELSE ScoreCoincs(ScoreCdict(st, coincs[k].key, coincs[k].cdict, 1, prim, aux, lt),
                     coincs, k + 1, prim, aux, lt)

\* lines 178-198: from the coincs to the pair returned
Score(coincs, prim, aux, lt) ==
    ScoreCoincs([raised |-> None, winner |-> NewWinner,
                 sigs |-> [c \in DOMAIN aux |-> 0]],
                coincs, 1, prim, aux, lt)

\* rec = vstack_tables([primary] + list(auxiliary.values()))
Rec(prim, aux) == VstackTables(<<prim>> \o AuxValues(aux))

\* the whole call
FindMaxSignificance(prim, aux, channel, snrs0, windows0, lt, order) ==
    Score(FindAllCoincidences(Rec(prim, aux), channel, snrs0, windows0, order),
          prim, aux, lt)

-----------------------------------------------------------------------------
(* The inputs the calls are made on *)

\* a table in time order, rows of equal time by snr
Ordered(tbl) ==
    \A k \in 1 .. Len(tbl) - 1 :
        \/ tbl[k].time < tbl[k + 1].time
        \/ (tbl[k].time = tbl[k + 1].time /\ tbl[k].snr <= tbl[k + 1].snr)

TotalLen(aux) == Len(VstackTables(AuxValues(aux)))

NoScan == [triggers |-> <<>>, ws |-> <<>>, ss |-> <<>>, coincs |-> <<>>, i |-> 0]
NoAux == [c \in AuxChannels |-> <<>>]

\* the orders a set of channel names can be iterated in (string hashes are
\* salted per interpreter run)
HashOrders == {<<"X", "Y">>, <<"Y", "X">>}

(* Grid search: find_max_significance and, inside it, find_all_coincidences *)
GridTimes == {0, 1}
GridSnrs == {5, 10}
GridWindows == {<<>>, <<1>>, <<1, 2>>}
GridThresholds == {<<>>, <<10>>, <<10, 5>>}
Livetimes == {0, 100}

PrimaryTables ==
    SeqsUpTo({Event(t, 10, PrimaryChannel) : t \in GridTimes}, MaxPrimary)

GridAuxTables(c) ==
    {tbl \in SeqsUpTo({Event(t, s, c) : t \in GridTimes, s \in GridSnrs}, MaxAux) :
        Ordered(tbl)}

GridAux ==
    {aux \in [AuxChannels -> UNION {GridAuxTables(c) : c \in AuxChannels}] :
        /\ \A c \in AuxChannels : aux[c] \in GridAuxTables(c)
        /\ TotalLen(aux) <= MaxAux}

InitGrid ==
    /\ pc = "start"
    /\ op = None
    /\ primary \in PrimaryTables
    /\ auxiliary \in GridAux
    /\ snrs \in GridThresholds
    /\ windows \in GridWindows
    /\ livetime = 100
    /\ segmentlist = <<>>
    /\ a = <<>> /\ b = <<>> /\ dt = 0
    /\ hashorder = <<>>
    /\ scan = NoScan
    /\ ret = NoRet
    /\ ret2 = NoRet
    /\ args = NoArgs
    /\ job = NoJob

\* find_max_significance is entered: rec is stacked and find_all_coincidences
\* runs up to its loop over the triggers
CallFindMaxSignificance ==
    /\ pc = "start"
    /\ \E order \in HashOrders : hashorder' = order
    /\ LET ws == SortedDesc(windows)
           ss == SortedAsc(snrs)
       IN  scan' = [triggers |-> SortByTime(Rec(primary, auxiliary)),
                    ws |-> ws, ss |-> ss,
                    coincs |-> EmptyCoincs(ws, ss), i |-> 1]
    /\ pc' = "scan"
    /\ op' = "find_max_significance"
    /\ UNCHANGED <<primary, auxiliary, snrs, windows, segmentlist, a, b, dt,
                   livetime, ret, ret2,
                   args, job>>

\* one iteration of the loop over the triggers
ScanStep ==
    /\ pc = "scan"
    /\ scan.i <= Len(scan.triggers)
    /\ scan' = [scan EXCEPT
                  !.coincs = ScanBody(@, scan.triggers, PrimaryChannel, scan.i,
                                      scan.ws, scan.ss, hashorder),
                  !.i = @ + 1]
    /\ UNCHANGED <<pc, op, primary, auxiliary, snrs, windows, segmentlist,
                   a, b, dt, livetime, hashorder, ret, ret2,
                   args, job>>

\* find_all_coincidences returns and find_max_significance scores the coincs
ScoreAndReturn ==
    /\ pc = "scan"
    /\ scan.i > Len(scan.triggers)
    /\ ret' = Score(scan.coincs, primary, auxiliary, livetime)
    /\ pc' = "done"
    /\ UNCHANGED <<op, primary, auxiliary, snrs, windows, segmentlist, a, b, dt,
                   livetime, hashorder, scan, ret2,
                   args, job>>

\* a second run of find_max_significance on the same inputs, in a fresh
\* interpreter
CallAgain ==
    /\ pc = "done"
    /\ op = "find_max_significance"
    /\ ret2 = NoRet
    /\ \E order \in HashOrders :
          ret2' = FindMaxSignificance(primary, auxiliary, PrimaryChannel, snrs,
                                      windows, livetime, order)
    /\ UNCHANGED <<pc, op, primary, auxiliary, snrs, windows, segmentlist,
                   a, b, dt, livetime, hashorder, scan, ret,
                   args, job>>

NextGrid == CallFindMaxSignificance \/ ScanStep \/ ScoreAndReturn \/ CallAgain

SpecGrid == InitGrid /\ [][NextGrid]_vars

(* Grid search on a grid that holds a window or a threshold that is not    *)
(* positive                                                                *)
BadWindows == {<<0>>, <<1>>, <<1, 0>>}
BadThresholds == {<<0>>, <<10>>, <<10, -5>>}

NonPositive(seq) == \E k \in 1 .. Len(seq) : seq[k] <= 0

InitBadGrid ==
    /\ pc = "start"
    /\ op = None
    /\ primary \in PrimaryTables
    /\ auxiliary \in {aux \in GridAux : TotalLen(aux) < MaxAux}
    /\ windows \in BadWindows
    /\ snrs \in BadThresholds
    /\ NonPositive(windows) \/ NonPositive(snrs)
    /\ livetime = 100
    /\ segmentlist = <<>>
    /\ a = <<>> /\ b = <<>> /\ dt = 0
    /\ hashorder = <<>>
    /\ scan = NoScan
    /\ ret = NoRet
    /\ ret2 = NoRet
    /\ args = NoArgs
    /\ job = NoJob

SpecBadGrid == InitBadGrid /\ [][NextGrid]_vars

(* Pairwise coincidence: find_coincidences and coinc_significance *)
Windows == {1, 2}

SortedTimes(arr) == \A k \in 1 .. Len(arr) - 1 : arr[k] <= arr[k + 1]

InitCoinc ==
    /\ pc = "start"
    /\ op = None
    /\ a \in SeqsUpTo(Times, MaxArray)
    /\ b \in {arr \in SeqsUpTo(Times, MaxArray) : SortedTimes(arr)}
    /\ dt \in Windows
    /\ livetime \in Livetimes
    /\ primary = <<>>
    /\ auxiliary = NoAux
    /\ snrs = <<>> /\ windows = <<>>
    /\ segmentlist = <<>>
    /\ hashorder = <<>>
    /\ scan = NoScan
    /\ ret = NoRet
    /\ ret2 = NoRet
    /\ args = NoArgs
    /\ job = NoJob

CallFindCoincidences ==
    /\ pc = "start"
    /\ ret' = [raised |-> None, coincs |-> FindCoincidences(a, b, dt)]
    /\ pc' = "done"
    /\ op' = "find_coincidences"
    /\ UNCHANGED <<primary, auxiliary, snrs, windows, segmentlist, a, b, dt,
                   livetime, hashorder, scan, ret2,
                   args, job>>

CallCoincSignificance ==
    /\ pc = "start"
    /\ ret' = CoincSignificance(a, b, dt, livetime)
    /\ pc' = "done"
    /\ op' = "coinc_significance"
    /\ UNCHANGED <<primary, auxiliary, snrs, windows, segmentlist, a, b, dt,
                   livetime, hashorder, scan, ret2,
                   args, job>>

NextCoinc == CallFindCoincidences \/ CallCoincSignificance

SpecCoinc == InitCoinc /\ [][NextCoinc]_vars

(* Veto: veto on one channel's table, veto_all on a dict of one or two      *)
(* channels                                                                *)
\* the ends of the veto segments: one more than the times of the events, so
\* that a coalesced list can hold two segments
SegTimes == Times \cup {Cardinality(Times)}
Segments == {sg \in SegTimes \X SegTimes : sg[1] <= sg[2]}

VetoTables(c) == SeqsUpTo({Event(t, 10, c) : t \in Times}, MaxTable)

InitVeto ==
    /\ pc = "start"
    /\ op = None
    /\ \E chans \in (SUBSET AuxChannels) \ {{}} :
          auxiliary \in {aux \in [chans -> UNION {VetoTables(c) : c \in chans}] :
                           /\ \A c \in chans : aux[c] \in VetoTables(c)
                           /\ TotalLen(aux) <= MaxTable}
    /\ segmentlist \in SeqsUpTo(Segments, MaxSegs)
    /\ primary = <<>>
    /\ snrs = <<>> /\ windows = <<>>
    /\ a = <<>> /\ b = <<>> /\ dt = 0
    /\ livetime = 100
    /\ hashorder = <<>>
    /\ scan = NoScan
    /\ ret = NoRet
    /\ ret2 = NoRet
    /\ args = NoArgs
    /\ job = NoJob

\* veto(auxiliary[c], segmentlist): the table is sorted in place; ret keeps
\* the table as it was handed in
CallVeto ==
    /\ pc = "start"
    /\ \E c \in DOMAIN auxiliary :
          LET r == Veto(auxiliary[c], segmentlist) IN
          /\ ret' = r @@ [input |-> auxiliary[c]]
          /\ auxiliary' = [auxiliary EXCEPT ![c] = r.table]
    /\ pc' = "done"
    /\ op' = "veto"
    /\ UNCHANGED <<primary, snrs, windows, segmentlist, a, b, dt, livetime,
                   hashorder, scan, ret2,
                   args, job>>

\* veto_all(auxiliary, segmentlist): veto sorts the stacked table t in place,
\* and t is the caller's table when the dict holds a single one
CallVetoAll ==
    /\ pc = "start"
    /\ ret' = VetoAll(auxiliary, segmentlist)
    /\ auxiliary' = IF VstackIsSameTable(AuxValues(auxiliary))
                    THEN [c \in DOMAIN auxiliary |-> SortByTime(auxiliary[c])]
                    ELSE auxiliary
    /\ pc' = "done"
    /\ op' = "veto_all"
    /\ UNCHANGED <<primary, snrs, windows, segmentlist, a, b, dt,
                   livetime, hashorder, scan, ret2,
                   args, job>>

NextVeto == CallVeto \/ CallVetoAll

SpecVeto == InitVeto /\ [][NextVeto]_vars

(* significance(n, mu) called on its own, over the counts and the          *)
(* expectations (in hundredths) the table of gammainc covers                *)
SigCounts == 0 .. Len(NegLog10Gammainc)
SigMus == 0 .. Len(NegLog10Gammainc[1])

InitSig ==
    /\ pc = "start"
    /\ op = None
    /\ args \in [f : {"significance"}, n : SigCounts, mu : SigMus]
    /\ primary = <<>>
    /\ auxiliary = NoAux
    /\ snrs = <<>> /\ windows = <<>>
    /\ segmentlist = <<>>
    /\ a = <<>> /\ b = <<>> /\ dt = 0
    /\ livetime = 100
    /\ hashorder = <<>>
    /\ scan = NoScan
    /\ ret = NoRet
    /\ ret2 = NoRet
    /\ job = NoJob

CallSignificance ==
    /\ pc = "start"
    /\ args.f = "significance"
    /\ ret' = Significance(args.n, args.mu)
    /\ pc' = "done"
    /\ op' = "significance"
    /\ UNCHANGED <<primary, auxiliary, snrs, windows, segmentlist, a, b, dt,
                   livetime, hashorder, scan, ret2, args, job>>

NextSig == CallSignificance

SpecSig == InitSig /\ [][NextSig]_vars

(* HvetoRound: the analysis segments are a coalesced list, the vetoes any  *)
(* list of segments                                                        *)
RoundSegments == {sg \in RoundTimes \X RoundTimes : sg[1] <= sg[2]}

InitRound ==
    /\ pc = "start"
    /\ op = None
    /\ args \in [f : {"HvetoRound"},
                  segments : {l \in SeqsUpTo(RoundSegments, MaxSegs) : Coalesce(l) = l},
                  vetoes : SeqsUpTo(RoundSegments, MaxSegs)]
    /\ job = NoJob
    /\ primary = <<>>
    /\ auxiliary = NoAux
    /\ snrs = <<>> /\ windows = <<>>
    /\ segmentlist = <<>>
    /\ a = <<>> /\ b = <<>> /\ dt = 0
    /\ livetime = 100
    /\ hashorder = <<>>
    /\ scan = NoScan
    /\ ret = NoRet
    /\ ret2 = NoRet

ReadLivetime ==
    /\ pc = "start"
    /\ args.f = "HvetoRound"
    /\ ret' = [raised |-> None, value |-> Livetime(args.segments)]
    /\ pc' = "done"
    /\ op' = "livetime"
    /\ UNCHANGED <<primary, auxiliary, snrs, windows, segmentlist, a, b, dt,
                   livetime, hashorder, scan, ret2, args, job>>

ReadDeadtime ==
    /\ pc = "start"
    /\ args.f = "HvetoRound"
    /\ ret' = [raised |-> None, value |-> Deadtime(args.vetoes, args.segments)]
    /\ pc' = "done"
    /\ op' = "deadtime"
    /\ UNCHANGED <<primary, auxiliary, snrs, windows, segmentlist, a, b, dt,
                   livetime, hashorder, scan, ret2, args, job>>

NextRound == ReadLivetime \/ ReadDeadtime

SpecRound == InitRound /\ [][NextRound]_vars

(* weekly_hveto main(): the loop that writes the JOB entries of the DAG.   *)
(* A day is a number of days since some day 0; --start, --end and --stride *)
(* are in args.                                                            *)

\* int(x / y) for y > 0: the quotient rounded toward zero
IntOfQuotient(x, y) == IF x >= 0 THEN x \div y ELSE - ((- x) \div y)

InitWeekly ==
    /\ pc = "start"
    /\ op = None
    /\ args \in [f : {"weekly_hveto"}, start : 0 .. MaxDay, end : 0 .. MaxDay,
                  stride : 1 .. MaxStride]
    /\ job = NoJob
    /\ primary = <<>>
    /\ auxiliary = NoAux
    /\ snrs = <<>> /\ windows = <<>>
    /\ segmentlist = <<>>
    /\ a = <<>> /\ b = <<>> /\ dt = 0
    /\ livetime = 100
    /\ hashorder = <<>>
    /\ scan = NoScan
    /\ ret = NoRet
    /\ ret2 = NoRet

\* next_dt = end_dt; njobs = int((end_dt - start_dt).days / stride);
\* current_job = 1
CallWeeklyHveto ==
    /\ pc = "start"
    /\ args.f = "weekly_hveto"
    /\ job' = [next_dt |-> args.end, current_job |-> 1,
               njobs |-> IntOfQuotient(args.end - args.start, args.stride),
               jobs |-> <<>>]
    /\ pc' = "loop"
    /\ op' = "weekly_hveto"
    /\ UNCHANGED <<primary, auxiliary, snrs, windows, segmentlist, a, b, dt,
                   livetime, hashorder, scan, ret, ret2, args>>

\* one iteration of "while start_dt <= next_dt": the JOB line of the job
\* hveto_<current_job>_of_<njobs> ending on next_dt is written
WriteJob ==
    /\ pc = "loop"
    /\ args.start <= job.next_dt
    /\ job' = [job EXCEPT
                 !.jobs = Append(@, [current_job |-> job.current_job,
                                     njobs |-> job.njobs,
                                     end_day |-> job.next_dt]),
                 !.current_job = @ + 1,
                 !.next_dt = @ - args.stride]
    /\ UNCHANGED <<pc, op, primary, auxiliary, snrs, windows, segmentlist, a, b,
                   dt, livetime, hashorder, scan, ret, ret2, args>>

\* the loop is over: "DAG file with {njobs} jobs written" is logged
FinishWeekly ==
    /\ pc = "loop"
    /\ ~ (args.start <= job.next_dt)
    /\ ret' = [raised |-> None, logged |-> job.njobs]
    /\ pc' = "done"
    /\ UNCHANGED <<op, primary, auxiliary, snrs, windows, segmentlist, a, b, dt,
                   livetime, hashorder, scan, ret2, args, job>>

NextWeekly == CallWeeklyHveto \/ WriteJob \/ FinishWeekly

SpecWeekly == InitWeekly /\ [][NextWeekly]_vars

-----------------------------------------------------------------------------
(* Properties of find_all_coincidences *)

Abs(x) == IF x < 0 THEN -x ELSE x

Returned(f) == pc = "done" /\ op = f

\* an event of tbl lies within the window w of the time t (both ends
\* included) with snr >= s
HasNeighbour(tbl, t, w, s) ==
    \E j \in 1 .. Len(tbl) : 2 * Abs(tbl[j].time - t) <= w /\ tbl[j].snr >= s

\* the primary events that have such a neighbour in the table of channel c
CoincidentPrimaries(c, w, s) ==
    {k \in 1 .. Len(primary) : HasNeighbour(auxiliary[c], primary[k].time, w, s)}

\* C1: the count returned for (window, threshold, channel) is the number of
\* primary events with at least one event of that channel within the window
\* and at or above the threshold, whatever lies between them in the table
C1_CountIsCoincidentPrimaries ==
    Returned("find_max_significance") =>
        \A k \in 1 .. Len(windows), m \in 1 .. Len(snrs), c \in AuxChannels :
            CountOf(scan.coincs, <<windows[k], snrs[m]>>, c)
                = Cardinality(CoincidentPrimaries(c, windows[k], snrs[m]))

\* the trigger the last iteration of the scan was on
LastScanned == scan.triggers[scan.i - 1]

\* C2: one iteration of the loop over the triggers, that is one primary
\* event, raises no count of a (cell, channel) pair by more than 1, and raises
\* it only if the event has a neighbour of that channel in the cell
C2_AtMostOnePerPrimary ==
    [][(pc = "scan" /\ pc' = "scan") =>
          \A k \in 1 .. Len(scan.coincs), c \in AuxChannels :
              LET key == scan.coincs[k].key
                  d   == CountOf(scan'.coincs, key, c) - CountOf(scan.coincs, key, c)
              IN  /\ d \in {0, 1}
                  /\ d = 1 => /\ scan.triggers[scan.i].channel = PrimaryChannel
                              /\ HasNeighbour(auxiliary[c], scan.triggers[scan.i].time,
                                              key[1], key[2])]_vars

\* C2 witness: the only primary event has been scanned, three events of X
\* lie in its window at or above the threshold, and the count of X is 1
C2_Witness ==
    /\ pc = "scan"
    /\ scan.i > 1
    /\ Len(primary) = 1
    /\ LastScanned.channel = PrimaryChannel
    /\ \E k \in 1 .. Len(scan.coincs) :
          LET key == scan.coincs[k].key IN
          /\ Cardinality({j \in 1 .. Len(auxiliary["X"]) :
                            /\ 2 * Abs(auxiliary["X"][j].time - LastScanned.time) <= key[1]
                            /\ auxiliary["X"][j].snr >= key[2]}) >= 3
          /\ CountOf(scan.coincs, key, "X") = 1

\* the positions the two searches from the primary event last scanned went
\* on from: add_if_coinc returned 1 on them
WentPast ==
    SearchLeft(scan.triggers, PrimaryChannel, scan.i - 2)
        \cup SearchRight(scan.triggers, PrimaryChannel, scan.i)

\* the other positions of the table whose event lies inside the widest window
\* of the primary event last scanned; the table being in time order, they are
\* the neighbours up to the first one outside the widest window
InWidestWindow ==
    {j \in (1 .. Len(scan.triggers)) \ {scan.i - 1} :
        2 * Abs(scan.triggers[j].time - LastScanned.time) <= scan.ws[1]}

\* C19: the searches to the left and to the right of a primary event go on
\* over every neighbour inside the widest window, another primary event
\* included, and over no event at or beyond the first neighbour outside it
C19_ScanCoversWidestWindow ==
    (/\ pc = "scan"
     /\ scan.i > 1
     /\ LastScanned.channel = PrimaryChannel
     /\ scan.ws # <<>>) => WentPast = InWidestWindow

\* the count of channel c in the cell (w, s) of the coincs built so far
GridCount(w, s, c) == CountOf(scan.coincs, <<w, s>>, c)

\* C24: throughout the scan and on return the counts are monotone over the
\* grid: a wider window or a lower threshold never has a smaller count; no
\* count exceeds the number of primary events, and the primary channel is
\* never a counted channel
C24_CountsMonotoneOverGrid ==
    (op = "find_max_significance") =>
        /\ \A c \in AuxChannels, s \in Range(snrs), w1 \in Range(windows),
              w2 \in Range(windows) :
              w1 >= w2 => GridCount(w1, s, c) >= GridCount(w2, s, c)
        /\ \A c \in AuxChannels, w \in Range(windows), s1 \in Range(snrs),
              s2 \in Range(snrs) :
              s1 <= s2 => GridCount(w, s1, c) >= GridCount(w, s2, c)
        /\ \A c \in AuxChannels, w \in Range(windows), s \in Range(snrs) :
              GridCount(w, s, c) <= Len(primary)
        /\ \A k \in 1 .. Len(scan.coincs) :
              \A q \in 1 .. Len(scan.coincs[k].cdict) :
                  scan.coincs[k].cdict[q].chan # PrimaryChannel

\* C24 witness: the call has returned on a grid of two windows and two
\* thresholds, and for X the count falls both from the wider window to the
\* narrower one and from the lower threshold to the higher one
C24_Witness ==
    /\ Returned("find_max_significance")
    /\ Len(windows) = 2 /\ Len(snrs) = 2
    /\ \E w \in Range(windows), s \in Range(snrs) :
          /\ GridCount(2, s, "X") > GridCount(1, s, "X")
          /\ GridCount(w, 5, "X") > GridCount(w, 10, "X")
          /\ GridCount(1, 10, "X") > 0

-----------------------------------------------------------------------------
(* Properties of find_coincidences and coinc_significance *)

\* C3: find_coincidences returns exactly the positions of a with an element
\* of b in the half-open window [a[i] - dt/2, a[i] + dt/2)
C3_HalfOpenWindow ==
    Returned("find_coincidences") =>
        ret.coincs = {k \in 1 .. Len(a) :
                        \E m \in 1 .. Len(b) :
                            2 * a[k] - dt <= 2 * b[m] /\ 2 * b[m] < 2 * a[k] + dt}

\* C9: coinc_significance with livetime == 0 never raises
C9_ZeroLivetimeNeverRaises ==
    (Returned("coinc_significance") /\ livetime = 0) => ret.raised = None

\* C12: significance(0, mu) returns 0 for every mu >= 0, mu = 0 included
C12_ZeroCountIsZero ==
    (Returned("significance") /\ args.n = 0) =>
        /\ ret.raised = None
        /\ ~ IsNaN(ret)
        /\ ret.sig = 0

\* the call returned a number
ReturnedNumber(r) == r.raised = None /\ ~ IsNaN(r)

\* C13: for every n >= 0 and mu >= 0 the call returns a number, one more
\* coincidence at the same mu does not give a smaller significance, and for
\* n > 0 a larger mu does not give a larger one
C13_Monotone ==
    Returned("significance") =>
        /\ ReturnedNumber(ret)
        /\ args.n + 1 \in SigCounts =>
              LET more == Significance(args.n + 1, args.mu) IN
              ReturnedNumber(more) /\ more.sig >= ret.sig
        /\ (args.n > 0 /\ args.mu + 1 \in SigMus) =>
              LET larger == Significance(args.n, args.mu + 1) IN
              ReturnedNumber(larger) /\ larger.sig <= ret.sig

\* C21: whenever gammainc(n, mu) is exactly zero, significance returns the
\* value of the fallback and raises nothing, mu = 0 included
C21_FallbackNeverRaises ==
    (Returned("significance") /\ args.n > 0 /\ GammaincIsZero(args.n, args.mu)) =>
        ReturnedNumber(ret)

-----------------------------------------------------------------------------
(* Properties of find_max_significance *)

\* the expected number of coincidences of channel c in the cell (w, s), in
\* hundredths
MuOf(w, s, c) == (Len(primary) * CountSnr(auxiliary[c], s) * w * 100) \div livetime

\* the (window, threshold, channel) triples with a nonzero count
CountedPairs ==
    {p \in Range(windows) \X Range(snrs) \X AuxChannels :
        CountOf(scan.coincs, <<p[1], p[2]>>, p[3]) > 0}

PairSig(p) ==
    Significance(CountOf(scan.coincs, <<p[1], p[2]>>, p[3]), MuOf(p[1], p[2], p[3])).sig

\* the grid order: windows descending, then thresholds ascending
CellBefore(w1, s1, w2, s2) == w1 > w2 \/ (w1 = w2 /\ s1 < s2)

\* C4: the winner is a counted pair of maximal significance, and no pair of
\* the same significance lies in a cell that comes before the winner's in the
\* grid order
C4_WinnerIsFirstMaximum ==
    (Returned("find_max_significance") /\ CountedPairs # {}) =>
        LET w == ret.winner IN
        /\ ret.raised = None
        /\ <<w.window, w.snr, w.name>> \in CountedPairs
        /\ w.significance = PairSig(<<w.window, w.snr, w.name>>)
        /\ w.mu = MuOf(w.window, w.snr, w.name)
        /\ \A p \in CountedPairs :
              /\ PairSig(p) <= w.significance
              /\ PairSig(p) = w.significance
                    => ~ CellBefore(p[1], p[2], w.window, w.snr)

\* C4 witness: the caller listed the windows ascending and the thresholds
\* descending, two cells hold a pair of the maximal significance, and the
\* winner is the one of the cell that comes first in the grid order
C4_Witness ==
    /\ Returned("find_max_significance")
    /\ windows = <<1, 2>>
    /\ snrs = <<10, 5>>
    /\ \E p \in CountedPairs :
          /\ PairSig(p) = ret.winner.significance
          /\ CellBefore(ret.winner.window, ret.winner.snr, p[1], p[2])

\* no primary event has an event of any auxiliary channel in any cell
NoCoincidence ==
    \A k \in 1 .. Len(windows), m \in 1 .. Len(snrs), c \in AuxChannels :
        CoincidentPrimaries(c, windows[k], snrs[m]) = {}

EmptyGrid == windows = <<>> \/ snrs = <<>>

\* C5 as stated: on an empty grid or without any coincidence the call returns
\* the winner with significance -1 and channel None
C5_SentinelChannelNone ==
    (Returned("find_max_significance") /\ (EmptyGrid \/ NoCoincidence)) =>
        /\ ret.raised = None
        /\ ret.winner.significance = -1000
        /\ ret.winner.name = None

\* C5 amended: on an empty grid or without any coincidence the call returns
\* the winner with significance -1 and the channel name 'unknown'; its snr,
\* window and mu are None
C5_SentinelChannelUnknown ==
    (Returned("find_max_significance") /\ (EmptyGrid \/ NoCoincidence)) =>
        /\ ret.raised = None
        /\ ret.winner.significance = -1000
        /\ ret.winner.name = "unknown"
        /\ ret.winner.snr = None /\ ret.winner.window = None /\ ret.winner.mu = None
        /\ \A c \in AuxChannels : ret.sigs[c] = 0

\* C5 witness: a grid, primary events and auxiliary events, none coincident,
\* and the sentinel returned
C5_Witness ==
    /\ Returned("find_max_significance")
    /\ ~ EmptyGrid
    /\ primary # <<>>
    /\ auxiliary["X"] # <<>>
    /\ NoCoincidence
    /\ ret.winner.significance = -1000

\* C10: a second run on the same inputs returns the same winner
C10_SameWinnerOnRerun ==
    (Returned("find_max_significance") /\ ret2 # NoRet) => ret2.winner = ret.winner

\* the largest element of a non-empty set of numbers
MaxOf(S) == CHOOSE x \in S : \A y \in S : y <= x

\* the significances channel c reached over the cells where its count is
\* nonzero
ChannelSigs(c) == {PairSig(p) : p \in {q \in CountedPairs : q[3] = c}}

\* C23: on return the per-channel value of every auxiliary channel is the
\* larger of 0 and the greatest significance the channel reached over the
\* cells where its count is nonzero; when the winner is not the sentinel, its
\* significance is the largest per-channel value and the per-channel value of
\* the winning channel
C23_PerChannelBest ==
    Returned("find_max_significance") =>
        /\ ret.raised = None
        /\ DOMAIN ret.sigs = DOMAIN auxiliary
        /\ \A c \in AuxChannels : ret.sigs[c] = MaxOf(ChannelSigs(c) \cup {0})
        /\ ret.winner.significance # -1000 =>
              /\ ret.winner.significance = MaxOf({ret.sigs[c] : c \in AuxChannels})
              /\ ret.winner.significance = ret.sigs[ret.winner.name]

\* C23 witness: X reached two different significances, the smaller one in the
\* later cell of the grid, and Y, which has an event, has no coincidence and
\* keeps 0
C23_Witness ==
    /\ Returned("find_max_significance")
    /\ \E p, q \in CountedPairs :
          /\ p[3] = "X" /\ q[3] = "X"
          /\ CellBefore(p[1], p[2], q[1], q[2])
          /\ PairSig(p) > PairSig(q)
    /\ auxiliary["Y"] # <<>>
    /\ ret.sigs["Y"] = 0
    /\ ret.winner.name = "X"

\* one primary event, one event of X within half the single window of it and
\* at or above the single threshold, and no event of Y
OnePairInWindow ==
    /\ Len(primary) = 1
    /\ Len(auxiliary["X"]) = 1
    /\ auxiliary["Y"] = <<>>
    /\ Len(windows) = 1
    /\ Len(snrs) = 1
    /\ 2 * Abs(auxiliary["X"][1].time - primary[1].time) <= windows[1]
    /\ auxiliary["X"][1].snr >= snrs[1]

\* C11: with one primary event and one event of X within half the single
\* window of it and at or above the single threshold, find_max_significance
\* counts one coincidence and returns the winner X with that window, that
\* threshold, mu = |primary| * 1 * window / livetime and significance =
\* significance(1, mu)
C11_SinglePairWinner ==
    (Returned("find_max_significance") /\ OnePairInWindow) =>
        LET mu == (1 * 1 * windows[1] * 100) \div livetime IN
        /\ ret.raised = None
        /\ CountOf(scan.coincs, <<windows[1], snrs[1]>>, "X") = 1
        /\ ret.winner.name = "X"
        /\ ret.winner.window = windows[1]
        /\ ret.winner.snr = snrs[1]
        /\ ret.winner.mu = mu
        /\ ret.winner.significance = Significance(1, mu).sig
        /\ ret.winner.significance > 0

\* C11 witness: the call has returned on such a pair, the snr of the event of
\* X being equal to the threshold
C11_Witness ==
    /\ Returned("find_max_significance")
    /\ OnePairInWindow
    /\ auxiliary["X"][1].snr = snrs[1]
    /\ ret.winner.name = "X"

\* C15: on a grid that holds a window or a threshold that is not positive
\* find_max_significance never enters the scan of find_all_coincidences and
\* ends with an error
C15_BadGridRejected ==
    (op = "find_max_significance" /\ (NonPositive(windows) \/ NonPositive(snrs))) =>
        /\ pc # "scan"
        /\ pc = "done" => ret.raised # None

-----------------------------------------------------------------------------
(* Properties of veto and veto_all *)

InSegment(t, sg) == sg[1] <= t /\ t <= sg[2]

InsideSome(t, segs) == \E k \in 1 .. Len(segs) : InSegment(t, segs[k])

\* C6: for a non-empty segment list veto returns a pair (kept, removed) in
\* which every event of the table handed in appears exactly once, and no
\* other event
C6_VetoReturnsPartition ==
    (Returned("veto") /\ segmentlist # <<>>) =>
        /\ ret.raised = None
        /\ SeqToBag(ret.keep) (+) SeqToBag(ret.removed) = SeqToBag(ret.input)

\* C7: for a non-empty segment list veto returns, every removed event lies
\* inside a segment of the coalesced list, ends included, and every kept event
\* lies outside all of them
C7_RemovedIffInsideSegment ==
    (Returned("veto") /\ segmentlist # <<>>) =>
        /\ ret.raised = None
        /\ \A k \in 1 .. Len(ret.removed) :
              InsideSome(ret.removed[k].time, Coalesce(segmentlist))
        /\ \A k \in 1 .. Len(ret.keep) :
              ~ InsideSome(ret.keep[k].time, Coalesce(segmentlist))

Uncoalesced(segs) ==
    \E k, m \in 1 .. Len(segs) : k < m /\ ~ (segs[k][2] < segs[m][1])

\* t lies in a segment of the list that has a positive length, ends included
InsidePositive(t, segs) ==
    \E k \in 1 .. Len(segs) : segs[k][1] < segs[k][2] /\ InSegment(t, segs[k])

\* C14 as stated: veto called with a segment list that is not coalesced
\* raises an explicit precondition error and returns no partition
C14_UncoalescedRejected ==
    (Returned("veto") /\ Uncoalesced(segmentlist)) =>
        ret.raised \notin {None, "IndexError"}

\* C14 amended: veto called with a segment list that is not coalesced raises
\* no precondition error; it works on a coalesced copy: when some segment has
\* a positive length it returns the partition of the table in which the
\* removed events are those lying in a segment of positive length, and when
\* none has it fails on segmentlist[0] as it does on an empty list
C14_UncoalescedIsCoalesced ==
    (Returned("veto") /\ Uncoalesced(segmentlist)) =>
        /\ ret.raised \in {None, "IndexError"}
        /\ ret.raised = "IndexError" <=>
              (\A k \in 1 .. Len(segmentlist) : segmentlist[k][1] = segmentlist[k][2])
        /\ ret.raised = None =>
              /\ SeqToBag(ret.keep) (+) SeqToBag(ret.removed) = SeqToBag(ret.input)
              /\ \A k \in 1 .. Len(ret.removed) :
                    InsidePositive(ret.removed[k].time, segmentlist)
              /\ \A k \in 1 .. Len(ret.keep) :
                    ~ InsidePositive(ret.keep[k].time, segmentlist)

\* C14 witness: veto has returned a partition for a list whose segments are
\* out of order, an event removed and an event kept
C14_Witness ==
    /\ Returned("veto")
    /\ \E k, m \in 1 .. Len(segmentlist) :
          k < m /\ segmentlist[m][2] < segmentlist[k][1]
    /\ ret.raised = None
    /\ ret.removed # <<>>
    /\ ret.keep # <<>>

\* C17: a call leaves the caller's segment list, windows, thresholds and
\* tables as they were, but for the table handed to veto, which is put in
\* time order: veto_all does not reorder a table of the caller's dict
C17_InputsUnchanged ==
    [][/\ segmentlist' = segmentlist
       /\ windows' = windows
       /\ snrs' = snrs
       /\ primary' = primary
       /\ IF pc = "start" /\ op' = "veto"
          THEN \E c \in DOMAIN auxiliary :
                  auxiliary' = [auxiliary EXCEPT ![c] = SortByTime(@)]
          ELSE auxiliary' = auxiliary]_vars

\* the states of the loop of veto from st on, one per iteration and the last
\* one
RECURSIVE VetoTrace(_, _, _)
VetoTrace(st, times, segs) ==
    IF st.running /\ st.i <= Len(times)
    THEN <<st>> \o VetoTrace(VetoLoopBody(st, times, segs), times, segs)
    ELSE <<st>>

\* the states the loop went through in the call that has returned
CallTrace ==
    LET segs  == Coalesce(segmentlist)
        times == [k \in 1 .. Len(ret.table) |-> ret.table[k].time]
    IN  VetoTrace([i |-> 1, j |-> 1, seg |-> segs[1],
                   keep |-> [k \in 1 .. Len(times) |-> TRUE],
                   running |-> TRUE], times, segs)

\* C22: for a table of n events and a non-empty list of m segments the scan
\* of veto ends: every iteration moves the event index or the segment index
\* on by one and leaves the other, at most n + m iterations run, and the
\* events not visited when the segments run out are kept
C22_ScanTerminates ==
    (Returned("veto") /\ segmentlist # <<>>) =>
        IF ret.raised # None THEN Coalesce(segmentlist) = <<>>
        ELSE LET tr == CallTrace IN
             /\ tr[Len(tr)] = ret.iters
             /\ \A k \in 1 .. Len(tr) - 1 :
                   \/ tr[k + 1].i = tr[k].i + 1 /\ tr[k + 1].j = tr[k].j
                   \/ tr[k + 1].j = tr[k].j + 1 /\ tr[k + 1].i = tr[k].i
             /\ Len(tr) - 1 <= Len(ret.input) + Len(segmentlist)
             /\ ~ ret.iters.running =>
                   \A k \in ret.iters.i .. Len(ret.table) :
                       /\ ret.iters.keep[k]
                       /\ \E q \in 1 .. Len(ret.keep) : ret.keep[q] = ret.table[k]

\* C22 witness: the coalesced list holds two segments, the scan removed an
\* event in the first, moved on to the second at a later event and removed
\* that one too, in fewer than n + m iterations
C22_Witness ==
    /\ Returned("veto")
    /\ Len(Coalesce(segmentlist)) > 1
    /\ ret.raised = None
    /\ ret.iters.j > 1
    /\ ret.iters.running
    /\ Len(ret.removed) > 1
    /\ \E k \in 1 .. Len(CallTrace) - 1 :
          /\ CallTrace[k + 1].j = CallTrace[k].j + 1
          /\ CallTrace[k].i > 1

\* C20: veto called with an empty segment list returns without raising, every
\* event of the table kept and none removed
C20_EmptySegmentListKeepsAll ==
    (Returned("veto") /\ segmentlist = <<>>) =>
        /\ ret.raised = None
        /\ SeqToBag(ret.keep) = SeqToBag(ret.input)
        /\ ret.removed = <<>>

-----------------------------------------------------------------------------
(* Properties of HvetoRound *)

\* the unit intervals [k, k + 1] that lie in a segment of the list
Covered(l) ==
    {k \in RoundTimes : \E q \in 1 .. Len(l) : l[q][1] <= k /\ k + 1 <= l[q][2]}

\* C16: livetime is the total duration of the analysis segments; deadtime is
\* the pair of the total duration of the part of the analysis segments that
\* the vetoes cover and of the livetime, whatever the vetoes are, and its
\* first component is not larger than the second
C16_LivetimeAndDeadtime ==
    /\ Returned("livetime") => ret.value = Cardinality(Covered(args.segments))
    /\ Returned("deadtime") =>
          /\ ret.value[1] = Cardinality(Covered(args.vetoes) \cap Covered(args.segments))
          /\ ret.value[2] = Cardinality(Covered(args.segments))
          /\ ret.value[1] <= ret.value[2]

-----------------------------------------------------------------------------
(* Properties of weekly_hveto *)

\* C18: for end - start a whole multiple of stride, the number of JOB
\* entries written is the njobs of the job names and of the log, and no job
\* number exceeds njobs
C18_JobCountIsNjobs ==
    (/\ Returned("weekly_hveto")
     /\ args.start <= args.end
     /\ (args.end - args.start) % args.stride = 0) =>
        /\ Len(job.jobs) = ret.logged
        /\ \A k \in 1 .. Len(job.jobs) :
              /\ job.jobs[k].njobs = ret.logged
              /\ job.jobs[k].current_job <= job.jobs[k].njobs

=============================================================================
